---- MODULE Spec2Model ----
(***************************************************************************)
(* Model of conference-central/conference.py: the ConferenceApi service    *)
(* over the ndb datastore (Profile and Conference entities), memcache and  *)
(* the task queue.                                                         *)
(*                                                                         *)
(* The datastore is the pair (profiles, confs): functions from keys to     *)
(* entities whose DOMAIN is the set of stored keys, so key.get() is None   *)
(* exactly when the key is outside the DOMAIN.  A call decorated with      *)
(* @ndb.transactional runs its body on a snapshot of the store, buffers    *)
(* its puts, and commits them atomically if no entity group it read was    *)
(* written in between; otherwise the body is run again, at most Retries    *)
(* more times.  An exception raised by the body rolls the buffered puts    *)
(* back.  Calls in flight are held in the slots of txn.                    *)
(***************************************************************************)
EXTENDS Integers, Sequences, FiniteSets, TLC

VARIABLES profiles, confs, txn, tasks, memcache, before

vars == <<profiles, confs, txn, tasks, memcache, before>>
store == <<profiles, confs>>

(* ------------------------------ bounds -------------------------------- *)
MaxUsers == 2
MaxConfs == 2
MaxTxn == 2
MaxRacers == 5
MaxFilters == 3
MaxQueryFilters == 2

Users == 1..MaxUsers
NoUser == 0
ConfIds == 1..MaxConfs
Slots == 1..MaxTxn
Racers == 1..MaxRacers

(* How many times ndb.transactional runs the body again after a failed    *)
(* commit (the decorator's default, none is passed at lines 434 and 477). *)
Retries == 3

(* Conference.seatsAvailable <= 5 in the announcement query (line 215).   *)
NearlySoldOut == 5

(* --------------------------- plain helpers ---------------------------- *)
(* wsck in prof.conferenceKeysToAttend *)
In(k, s) == \E i \in 1..Len(s) : s[i] = k

(* list.remove(k): drops the first occurrence of k (k is in s) *)
Remove(s, k) ==
  LET i == CHOOSE j \in 1..Len(s) : s[j] = k /\ \A h \in 1..(j - 1) : s[h] # k
  IN  SubSeq(s, 1, i - 1) \o SubSeq(s, i + 1, Len(s))

(* d[f] = v on a dict, setattr(obj, f, v) on an entity *)
SetField(d, f, v) == (f :> v) @@ d

(* ----------------------- module level constants ----------------------- *)
DEFAULTS ==
  [city |-> "Default City", maxAttendees |-> 0, seatsAvailable |-> 0,
   topics |-> <<"Default", "Topic">>]

MEMCACHE_ANNOUNCEMENTS_KEY == "RECENT_ANNOUNCEMENTS"

(* ------------------------------ inputs -------------------------------- *)
(* A ConferenceForm is the record of the fields the request sets; a field *)
(* left unset (None, or [] for topics) is outside its DOMAIN.             *)
NameValues == {"a"}
MaxAttendeesValues == {1, 2}
SeatsAvailableValues == {-1, 1}

OptionalField(f, values) == {<<>>} \cup {(f :> v) : v \in values}

ConferenceForms ==
  { n @@ m @@ s : n \in OptionalField("name", NameValues),
                  m \in OptionalField("maxAttendees", MaxAttendeesValues),
                  s \in OptionalField("seatsAvailable", SeatsAvailableValues) }

(* The requests of updateConference. *)
PatchForms ==
  {f \in ConferenceForms : "name" \notin DOMAIN f}

(* A ProfileMiniForm sets displayName and teeShirtSize, each optional;    *)
(* the requests drawn here set neither.                                   *)
ProfileMiniForms == {<<>>}

(* The requests of createConference and updateConference that carry      *)
(* dates: a startDate that is a date or is none, and a month of their own. *)
StartDateValues == {<<2015, 10, 1>>, <<2015, 13, 1>>}
MonthValues == {5}

DatedForms ==
  { n @@ d @@ m : n \in OptionalField("name", NameValues),
                  d \in OptionalField("startDate", StartDateValues),
                  m \in OptionalField("month", MonthValues) }

(* A ConferenceQueryForm clause: field, operator and value, all strings.  *)
(* Two clauses name a field or an operator outside the tables.            *)
FilterValues == {"London", "10"}

Clauses ==
  [field : {"CITY", "TOPIC", "MONTH", "MAX_ATTENDEES"},
   operator : {"EQ", "GT", "NE"},
   value : FilterValues]
  \cup {[field |-> "NAME", operator |-> "EQ", value |-> "a"],
        [field |-> "CITY", operator |-> "IN", value |-> "London"]}

(* request.filters: the sequences of k clauses *)
FilterSeqs(k) == [1..k -> Clauses]

(* The createConference requests that fill the store the queries read. *)
QueryStoreForms ==
  { [name |-> n, city |-> c, maxAttendees |-> m] @@ d :
      n \in {"a", "b"}, c \in {"London", "Paris"}, m \in {10, 11, 12},
      d \in OptionalField("startDate", {<<2015, 10, 1>>}) }

(* ------------------------------- slots -------------------------------- *)
(* One call in flight: its position, its arguments, the entities the body *)
(* holds (prof, conf), how many times the body was run again, whether an  *)
(* entity group it read has been written since, what it returned or       *)
(* raised (outcome) and, for a query, the query it built (result).        *)
IdleSlot ==
  [pc |-> "idle", op |-> "none", user |-> NoUser, wsck |-> 0,
   request |-> <<>>, prof |-> <<>>, conf |-> <<>>,
   attempts |-> 0, stale |-> FALSE, outcome |-> "none", result |-> <<>>]

Done(op, u, wsck, outcome) ==
  [IdleSlot EXCEPT !.pc = "done", !.op = op, !.user = u, !.wsck = wsck,
                   !.outcome = outcome]

(* History, not program state: what the store held for (user, wsck) just  *)
(* before the last registration that committed, kept only as long as the  *)
(* one thing that has arrived since is that user's unregistration of the  *)
(* same conference (NoCall otherwise).                                    *)
NoCall == <<>>

Forget == before' = NoCall

(* The call (op, u, wsck) is the unregistration that undoes the           *)
(* registration recorded in before.                                       *)
Follows(op, u, wsck) ==
  /\ op = "unregister"
  /\ before # NoCall
  /\ before.phase = "registered"
  /\ before.user = u
  /\ before.wsck = wsck

(* The entity groups a transaction in flight has read: the root of each   *)
(* key it got (a Profile is a root, a Conference is under its parent).    *)
ReadGroups(s) ==
  IF s.pc = "commit" THEN {s.user, s.conf.parent} ELSE {}

(* Invalidate, were a put to conflict with no transaction in flight. *)
InvalidateNone(slots, t, groups) == slots

(* A put into entity group g makes every transaction that read g stale.   *)
Invalidate(slots, t, groups) ==
  [x \in DOMAIN slots |->
     IF x # t /\ ReadGroups(slots[x]) \cap groups # {}
     THEN [slots[x] EXCEPT !.stale = TRUE]
     ELSE slots[x]]

(* ----------------------------- profiles ------------------------------- *)
(* Profile(userId, key, displayName = user.nickname(), mainEmail,         *)
(* teeShirtSize = NOT_SPECIFIED): conferenceKeysToAttend starts empty.    *)
NewProfile(u) ==
  [displayName |-> "nickname", teeShirtSize |-> "NOT_SPECIFIED",
   conferenceKeysToAttend |-> <<>>]

(* _get_profile_from_user: the stored Profile, or a new one (which the    *)
(* caller's context puts: see the actions).                               *)
GetProfileFromUser(u) ==
  IF u \in DOMAIN profiles THEN profiles[u] ELSE NewProfile(u)

(* _do_profile's loop: copy the fields the request sets, str(val). *)
CopyProfileFields(prof, request) ==
  [f \in DOMAIN prof |->
     IF f \in {"displayName", "teeShirtSize"} /\ f \in DOMAIN request
     THEN request[f] ELSE prof[f]]

(* ---------------------------- registration ---------------------------- *)
Raise(exc) == [raised |-> TRUE, outcome |-> exc, prof |-> <<>>, conf |-> <<>>]
Return(val, prof, conf) ==
  [raised |-> FALSE, outcome |-> val, prof |-> prof, conf |-> conf]

(* RegisterUser, were the append at line 504 missing. *)
RegisterWithoutKey(prof, conf, wsck) ==
  Return("True", prof, [conf EXCEPT !.seatsAvailable = @ - 1])

(* RegisterUser, were the seat taken from the capacity as well. *)
RegisterTakesCapacity(prof, conf, wsck) ==
  Return("True",
         [prof EXCEPT !.conferenceKeysToAttend = Append(@, wsck)],
         [conf EXCEPT !.seatsAvailable = @ - 1, !.maxAttendees = @ - 1])

(* prof.conferenceKeysToAttend.append(wsck); conf.seatsAvailable -= 1 *)
RegisterUser(prof, conf, wsck) ==
  Return("True",
         [prof EXCEPT !.conferenceKeysToAttend = Append(@, wsck)],
         [conf EXCEPT !.seatsAvailable = @ - 1])

(* UnregisterUser, were the increment at line 515 missing. *)
UnregisterKeepsSeats(prof, conf, wsck) ==
  Return("True",
         [prof EXCEPT !.conferenceKeysToAttend = Remove(@, wsck)],
         conf)

(* prof.conferenceKeysToAttend.remove(wsck); conf.seatsAvailable += 1 *)
UnregisterUser(prof, conf, wsck) ==
  Return("True",
         [prof EXCEPT !.conferenceKeysToAttend = Remove(@, wsck)],
         [conf EXCEPT !.seatsAvailable = @ + 1])

(* The body, were the seats checked before the membership. *)
BodySeatsFirst(u, wsck, reg) ==
  IF u = NoUser THEN Raise("Unauthorized")
  ELSE
    LET prof == GetProfileFromUser(u) IN
    IF wsck \notin DOMAIN confs THEN Raise("NotFound")
    ELSE
      LET conf == confs[wsck] IN
      IF reg THEN
        IF conf.seatsAvailable <= 0 THEN Raise("NoSeatsAvailable")
        ELSE IF In(wsck, prof.conferenceKeysToAttend)
        THEN Raise("AlreadyRegistered")
        ELSE RegisterUser(prof, conf, wsck)
      ELSE
        IF In(wsck, prof.conferenceKeysToAttend)
        THEN UnregisterUser(prof, conf, wsck)
        ELSE Return("False", prof, conf)

(* The body, were the test at line 499 seatsAvailable < 0. *)
BodySeatsBelowZero(u, wsck, reg) ==
  IF u = NoUser THEN Raise("Unauthorized")
  ELSE
    LET prof == GetProfileFromUser(u) IN
    IF wsck \notin DOMAIN confs THEN Raise("NotFound")
    ELSE
      LET conf == confs[wsck] IN
      IF reg THEN
        IF In(wsck, prof.conferenceKeysToAttend) THEN Raise("AlreadyRegistered")
        ELSE IF conf.seatsAvailable < 0 THEN Raise("NoSeatsAvailable")
        ELSE RegisterUser(prof, conf, wsck)
      ELSE
        IF In(wsck, prof.conferenceKeysToAttend)
        THEN UnregisterUser(prof, conf, wsck)
        ELSE Return("False", prof, conf)

(* The body, were the seat given back at line 515 whether or not the key  *)
(* is in the list.                                                        *)
BodyUnregisterUnchecked(u, wsck, reg) ==
  IF u = NoUser THEN Raise("Unauthorized")
  ELSE
    LET prof == GetProfileFromUser(u) IN
    IF wsck \notin DOMAIN confs THEN Raise("NotFound")
    ELSE
      LET conf == confs[wsck] IN
      IF reg THEN
        IF In(wsck, prof.conferenceKeysToAttend) THEN Raise("AlreadyRegistered")
        ELSE IF conf.seatsAvailable <= 0 THEN Raise("NoSeatsAvailable")
        ELSE RegisterUser(prof, conf, wsck)
      ELSE
        IF In(wsck, prof.conferenceKeysToAttend)
        THEN UnregisterUser(prof, conf, wsck)
        ELSE Return("False", prof, [conf EXCEPT !.seatsAvailable = @ + 1])

(* The body, were an unregistration from a conference that does not      *)
(* exist answered false instead of raising at line 488.                   *)
BodyMissingIsFalse(u, wsck, reg) ==
  IF u = NoUser THEN Raise("Unauthorized")
  ELSE
    LET prof == GetProfileFromUser(u) IN
    IF wsck \notin DOMAIN confs
    THEN IF reg THEN Raise("NotFound") ELSE Raise("False")
    ELSE
      LET conf == confs[wsck] IN
      IF reg THEN
        IF In(wsck, prof.conferenceKeysToAttend) THEN Raise("AlreadyRegistered")
        ELSE IF conf.seatsAvailable <= 0 THEN Raise("NoSeatsAvailable")
        ELSE RegisterUser(prof, conf, wsck)
      ELSE
        IF In(wsck, prof.conferenceKeysToAttend)
        THEN UnregisterUser(prof, conf, wsck)
        ELSE Return("False", prof, conf)

(* The body of _conference_registration, run on the store as it is now:   *)
(* what it raises, or what it returns and the two entities it puts.       *)
ConferenceRegistrationBody(u, wsck, reg) ==
  IF u = NoUser THEN Raise("Unauthorized")
  ELSE
    LET prof == GetProfileFromUser(u) IN
    IF wsck \notin DOMAIN confs THEN Raise("NotFound")
    ELSE
      LET conf == confs[wsck] IN
      IF reg THEN
        IF In(wsck, prof.conferenceKeysToAttend) THEN Raise("AlreadyRegistered")
        ELSE IF conf.seatsAvailable <= 0 THEN Raise("NoSeatsAvailable")
        ELSE RegisterUser(prof, conf, wsck)
      ELSE
        IF In(wsck, prof.conferenceKeysToAttend)
        THEN UnregisterUser(prof, conf, wsck)
        ELSE Return("False", prof, conf)

(* What the store holds for the call of slot s, a registration about to   *)
(* commit.                                                                *)
BeforeRegistration(s) ==
  [phase |-> "registered", user |-> s.user, wsck |-> s.wsck,
   seatsAvailable |-> confs[s.wsck].seatsAvailable,
   conferenceKeysToAttend |->
     GetProfileFromUser(s.user).conferenceKeysToAttend]

(* One run of the body in slot t: an exception ends the call (the puts    *)
(* buffered so far, the lazily created Profile among them, are dropped);  *)
(* a return leaves the call waiting to commit prof.put() and conf.put().  *)
RunBody(t, op, u, wsck, attempts) ==
  LET r == ConferenceRegistrationBody(u, wsck, op = "register") IN
  IF r.raised THEN Done(op, u, wsck, r.outcome)
  ELSE [IdleSlot EXCEPT !.pc = "commit", !.op = op, !.user = u, !.wsck = wsck,
                        !.prof = r.prof, !.conf = r.conf,
                        !.attempts = attempts, !.outcome = r.outcome]

(* registerForConference / unregisterFromConference arrive. *)
ConferenceRegistration(t, u, wsck, reg) ==
  /\ txn[t].pc = "idle"
  /\ txn' = [txn EXCEPT
              ![t] = RunBody(t, IF reg THEN "register" ELSE "unregister",
                             u, wsck, 0)]
  /\ before' = IF Follows(IF reg THEN "register" ELSE "unregister", u, wsck)
                THEN before ELSE NoCall
  /\ UNCHANGED <<profiles, confs, tasks, memcache>>

(* Commit, were the two puts made outside a transaction: they reach the   *)
(* store whatever was written since the body read it.                     *)
CommitUnchecked(t) ==
  /\ txn[t].pc = "commit"
  /\ profiles' = IF txn[t].op = "update" THEN profiles
                 ELSE (txn[t].user :> txn[t].prof) @@ profiles
  /\ confs' = (txn[t].wsck :> txn[t].conf) @@ confs
  /\ txn' = [Invalidate(txn, t, ReadGroups(txn[t])) EXCEPT
              ![t] = Done(txn[t].op, txn[t].user, txn[t].wsck, txn[t].outcome)]
  /\ before' = NoCall
  /\ UNCHANGED <<tasks, memcache>>

(* The commit of a transaction no group of which was written meanwhile:   *)
(* both puts reach the store in one step.                                 *)
Commit(t) ==
  /\ txn[t].pc = "commit"
  /\ ~txn[t].stale
  /\ profiles' = IF txn[t].op = "update" THEN profiles
                 ELSE (txn[t].user :> txn[t].prof) @@ profiles
  /\ confs' = (txn[t].wsck :> txn[t].conf) @@ confs
  /\ txn' = [Invalidate(txn, t, ReadGroups(txn[t])) EXCEPT
              ![t] = Done(txn[t].op, txn[t].user, txn[t].wsck, txn[t].outcome)]
  /\ before' = IF txn[t].op = "register" THEN BeforeRegistration(txn[t])
                ELSE IF Follows(txn[t].op, txn[t].user, txn[t].wsck)
                THEN [before EXCEPT !.phase = "unregistered"]
                ELSE NoCall
  /\ UNCHANGED <<tasks, memcache>>

(* The commit fails (a group was written meanwhile): the body runs again  *)
(* on the store as it is now.                                             *)
Retry(t) ==
  /\ txn[t].pc = "commit"
  /\ txn[t].stale
  /\ txn[t].attempts < Retries
  /\ txn' = [txn EXCEPT
              ![t] = RunBody(t, txn[t].op, txn[t].user, txn[t].wsck,
                             txn[t].attempts + 1)]
  /\ Forget
  /\ UNCHANGED <<profiles, confs, tasks, memcache>>

(* The commit fails and no retry is left: TransactionFailedError. *)
GiveUp(t) ==
  /\ txn[t].pc = "commit"
  /\ txn[t].stale
  /\ txn[t].attempts >= Retries
  /\ txn' = [txn EXCEPT
              ![t] = Done(txn[t].op, txn[t].user, txn[t].wsck,
                          "TransactionFailedError")]
  /\ Forget
  /\ UNCHANGED <<profiles, confs, tasks, memcache>>

(* The response has been sent: the slot is free again. *)
Respond(t) ==
  /\ txn[t].pc = "done"
  /\ txn' = [txn EXCEPT ![t] = IdleSlot]
  /\ UNCHANGED <<profiles, confs, tasks, memcache, before>>

(* ---------------------------- conferences ----------------------------- *)
(* A date string "YYYY-MM-DD" is the tuple <<year, month, day>>;          *)
(* datetime.strptime(...).date() raises ValueError unless it is a date.   *)
IsDate(s) == s[2] \in 1..12 /\ s[3] \in 1..28
Strptime(s) == [year |-> s[1], month |-> s[2], day |-> s[3]]

BadDates(request) ==
  \E f \in {"startDate", "endDate"} \cap DOMAIN request : ~IsDate(request[f])

(* SeatsOnCreation, were lines 356-358 missing. *)
SeatsAsRequested(data) == data

(* "set seatsAvailable to be same as maxAttendees on creation" *)
SeatsOnCreation(data) ==
  IF data.maxAttendees > 0
  THEN SetField(data, "seatsAvailable", data.maxAttendees)
  ELSE data

(* ConferenceData, were the else branch at lines 348-349 to keep a month  *)
(* the request carries.                                                   *)
ConferenceDataKeepsMonth(request) ==
  LET copied == [f \in DOMAIN request \ {"websafeKey", "organizerDisplayName"}
                   |-> request[f]]
      filled == copied @@ DEFAULTS
      start  == IF "startDate" \in DOMAIN filled
                THEN SetField(SetField(filled, "startDate",
                                       Strptime(filled.startDate)),
                              "month", filled.startDate[2])
                ELSE filled @@ [month |-> 0]
      ended  == IF "endDate" \in DOMAIN start
                THEN SetField(start, "endDate", Strptime(start.endDate))
                ELSE start
  IN  SeatsOnCreation(ended)

(* The dict data of _create_conference_object before the key is made:    *)
(* the request's fields, DEFAULTS for the missing ones, the dates, month. *)
ConferenceData(request) ==
  LET copied == [f \in DOMAIN request \ {"websafeKey", "organizerDisplayName"}
                   |-> request[f]]
      filled == copied @@ DEFAULTS
      start  == IF "startDate" \in DOMAIN filled
                THEN SetField(SetField(filled, "startDate",
                                       Strptime(filled.startDate)),
                              "month", filled.startDate[2])
                ELSE SetField(filled, "month", 0)
      ended  == IF "endDate" \in DOMAIN start
                THEN SetField(start, "endDate", Strptime(start.endDate))
                ELSE start
  IN  SeatsOnCreation(ended)

(* Conference.allocate_ids(size=1, parent=p_key)[0]: an id never used. *)
AllocateId == CHOOSE c \in ConfIds \ DOMAIN confs :
                \A d \in ConfIds \ DOMAIN confs : c <= d

(* The Conference entity made from data, with its key (its parent is the  *)
(* caller's Profile key).                                                 *)
NewConference(u, request) ==
  SetField(SetField(ConferenceData(request), "organizerUserId", u),
           "parent", u)

(* createConference up to the put of the Conference: not transactional,   *)
(* the put is in the store at once; the task is added next.               *)
CreateConferenceObject(t, u, request) ==
  /\ txn[t].pc = "idle"
  /\ IF u = NoUser
     THEN /\ txn' = [txn EXCEPT ![t] = Done("create", u, 0, "Unauthorized")]
          /\ UNCHANGED confs
     ELSE IF "name" \notin DOMAIN request
     THEN /\ txn' = [txn EXCEPT ![t] = Done("create", u, 0, "BadRequest")]
          /\ UNCHANGED confs
     ELSE IF BadDates(request)
     THEN /\ txn' = [txn EXCEPT ![t] = Done("create", u, 0, "ValueError")]
          /\ UNCHANGED confs
     ELSE /\ DOMAIN confs # ConfIds
          /\ confs' = (AllocateId :> NewConference(u, request)) @@ confs
          /\ txn' = [Invalidate(txn, t, {u}) EXCEPT
                      ![t] = [IdleSlot EXCEPT !.pc = "enqueue", !.op = "create",
                                              !.user = u, !.wsck = AllocateId,
                                              !.request = request]]
  /\ Forget
  /\ UNCHANGED <<profiles, tasks, memcache>>

(* taskqueue.add(...) accepts the confirmation email task. *)
Enqueue(t) ==
  /\ txn[t].pc = "enqueue"
  /\ tasks' = tasks \cup {txn[t].wsck}
  /\ txn' = [txn EXCEPT
              ![t] = Done("create", txn[t].user, txn[t].wsck, "ConferenceForm")]
  /\ Forget
  /\ UNCHANGED <<profiles, confs, memcache>>

(* EnqueueFails, were the put of the conference undone with the call. *)
EnqueueFailsRollsBack(t) ==
  /\ txn[t].pc = "enqueue"
  /\ confs' = [c \in DOMAIN confs \ {txn[t].wsck} |-> confs[c]]
  /\ txn' = [txn EXCEPT
              ![t] = Done("create", txn[t].user, txn[t].wsck, "TaskQueueError")]
  /\ Forget
  /\ UNCHANGED <<profiles, tasks, memcache>>

(* taskqueue.add(...) raises: the call fails after the put. *)
EnqueueFails(t) ==
  /\ txn[t].pc = "enqueue"
  /\ txn' = [txn EXCEPT
              ![t] = Done("create", txn[t].user, txn[t].wsck, "TaskQueueError")]
  /\ Forget
  /\ UNCHANGED <<profiles, confs, tasks, memcache>>

(* The module defines get_user_id (imported at line 24) and no            *)
(* _getUserId: the name looked up at line 439 is not bound.               *)
GetUserIdIsBound == FALSE

(* Lines 460-470: copy every field the request sets onto the entity. *)
PatchConference(conf, request) ==
  LET copied == [f \in DOMAIN request |->
                   IF f \in {"startDate", "endDate"}
                   THEN Strptime(request[f]) ELSE request[f]]
      month  == IF "startDate" \in DOMAIN request
                THEN SetField(conf, "month", request.startDate[2])
                ELSE conf
  IN  copied @@ month

(* The body of _update_conference_object. *)
UpdateConferenceBody(u, wsck, request) ==
  IF u = NoUser THEN Raise("Unauthorized")
  ELSE IF ~GetUserIdIsBound THEN Raise("NameError")
  ELSE IF wsck \notin DOMAIN confs THEN Raise("NotFound")
  ELSE IF u # confs[wsck].organizerUserId THEN Raise("Forbidden")
  ELSE IF BadDates(request) THEN Raise("ValueError")
  ELSE Return("ConferenceForm", <<>>, PatchConference(confs[wsck], request))

(* updateConference arrives and its body runs. *)
UpdateConferenceObject(t, u, wsck, request) ==
  /\ txn[t].pc = "idle"
  /\ LET r == UpdateConferenceBody(u, wsck, request) IN
     txn' = [txn EXCEPT
              ![t] = IF r.raised THEN Done("update", u, wsck, r.outcome)
                     ELSE [IdleSlot EXCEPT
                             !.pc = "commit", !.op = "update", !.user = u,
                             !.wsck = wsck, !.request = request,
                             !.conf = r.conf, !.outcome = r.outcome]]
  /\ Forget
  /\ UNCHANGED <<profiles, confs, tasks, memcache>>

(* getProfile: _do_profile() with no request; the Profile is made and put *)
(* when the user has none.                                                *)
GetProfile(t, u) ==
  /\ txn[t].pc = "idle"
  /\ IF u = NoUser
     THEN /\ txn' = [txn EXCEPT ![t] = Done("getProfile", u, 0, "Unauthorized")]
          /\ UNCHANGED profiles
     ELSE /\ profiles' = (u :> GetProfileFromUser(u)) @@ profiles
          /\ txn' = [(IF u \in DOMAIN profiles THEN txn
                      ELSE Invalidate(txn, t, {u})) EXCEPT
                      ![t] = Done("getProfile", u, 0, "ProfileForm")]
  /\ Forget
  /\ UNCHANGED <<confs, tasks, memcache>>

(* saveProfile up to the last put: the Profile is read (made and put when *)
(* the user has none) and the request's fields are set on the copy held.  *)
SaveProfile(t, u, request) ==
  /\ txn[t].pc = "idle"
  /\ IF u = NoUser
     THEN /\ txn' = [txn EXCEPT ![t] = Done("saveProfile", u, 0, "Unauthorized")]
          /\ UNCHANGED profiles
     ELSE /\ profiles' = (u :> GetProfileFromUser(u)) @@ profiles
          /\ txn' = [(IF u \in DOMAIN profiles THEN txn
                      ELSE Invalidate(txn, t, {u})) EXCEPT
                      ![t] = [IdleSlot EXCEPT
                                !.pc = "put", !.op = "saveProfile", !.user = u,
                                !.prof = CopyProfileFields(GetProfileFromUser(u),
                                                           request)]]
  /\ Forget
  /\ UNCHANGED <<confs, tasks, memcache>>

(* prof.put() of saveProfile: the copy held replaces the stored Profile. *)
ProfilePut(t) ==
  /\ txn[t].pc = "put"
  /\ profiles' = (txn[t].user :> txn[t].prof) @@ profiles
  /\ txn' = [Invalidate(txn, t, {txn[t].user}) EXCEPT
              ![t] = Done("saveProfile", txn[t].user, 0, "ProfileForm")]
  /\ Forget
  /\ UNCHANGED <<confs, tasks, memcache>>

(* The query of _cache_announcement (lines 214-217): the conferences     *)
(* with 0 < seatsAvailable <= 5.                                          *)
NearlySoldOutConferences ==
  {c \in DOMAIN confs :
     /\ confs[c].seatsAvailable <= NearlySoldOut
     /\ confs[c].seatsAvailable > 0}

(* memcache after lines 219-231: the conferences found are announced      *)
(* under the one key, or the key is deleted when none was found.          *)
Announce(found) ==
  IF found # {} THEN (MEMCACHE_ANNOUNCEMENTS_KEY :> found) ELSE <<>>

(* _cache_announcement with no other call in flight: the query and the    *)
(* write of the cache in one step.                                        *)
CacheAnnouncement ==
  /\ memcache' = Announce(NearlySoldOutConferences)
  /\ Forget
  /\ UNCHANGED <<profiles, confs, txn, tasks>>

(* _cache_announcement among other calls, in its two steps.  First the    *)
(* query: the call holds what it found.                                   *)
RefreshQuery(t) ==
  /\ txn[t].pc = "idle"
  /\ txn' = [txn EXCEPT
              ![t] = [IdleSlot EXCEPT
                        !.pc = "refresh", !.op = "refresh",
                        !.result = [found |-> NearlySoldOutConferences]]]
  /\ Forget
  /\ UNCHANGED <<profiles, confs, tasks, memcache>>

(* RefreshWrite, were the else branch at lines 227-231 missing. *)
RefreshWriteNoDelete(t) ==
  /\ txn[t].pc = "refresh"
  /\ memcache' = IF txn[t].result.found # {}
                 THEN Announce(txn[t].result.found) ELSE memcache
  /\ txn' = [txn EXCEPT ![t] = Done("refresh", NoUser, 0, "announcement")]
  /\ Forget
  /\ UNCHANGED <<profiles, confs, tasks>>

(* Then memcache.set or memcache.delete, from what the query found. *)
RefreshWrite(t) ==
  /\ txn[t].pc = "refresh"
  /\ memcache' = Announce(txn[t].result.found)
  /\ txn' = [txn EXCEPT ![t] = Done("refresh", NoUser, 0, "announcement")]
  /\ Forget
  /\ UNCHANGED <<profiles, confs, tasks>>

(* ------------------------------ queries ------------------------------- *)
OPERATORS ==
  [EQ |-> "=", GT |-> ">", GTEQ |-> ">=", LT |-> "<", LTEQ |-> "<=",
   NE |-> "!="]

FIELDS ==
  [CITY |-> "city", TOPIC |-> "topics", MONTH |-> "month",
   MAX_ATTENDEES |-> "maxAttendees"]

(* inequality_field = None *)
NoField == ""

(* The fields whose filter value _get_query passes through int(). *)
NumericFields == {"month", "maxAttendees"}

(* int(value) on the value strings of the model: the decimal numerals     *)
(* have a value, int() of any other string raises ValueError.             *)
Numerals == ("0" :> 0) @@ ("6" :> 6) @@ ("10" :> 10) @@ ("11" :> 11)

IsNumeral(v) == v \in DOMAIN Numerals
ToInt(v) == Numerals[v]

(* The strings of the model in the order Python and the datastore compare *)
(* them (by code point).                                                  *)
StringOrder ==
  <<"0", "10", "11", "6", "Default", "Default City", "London", "Paris",
    "Topic", "a", "b", "x">>

Rank(v) == CHOOSE i \in 1..Len(StringOrder) : StringOrder[i] = v

(* a op b, on two integers or on two strings *)
Compare(a, op, b, numeric) ==
  LET x == IF numeric THEN a ELSE Rank(a)
      y == IF numeric THEN b ELSE Rank(b)
  IN  CASE op = "="  -> x = y
        [] op = ">"  -> x > y
        [] op = ">=" -> x >= y
        [] op = "<"  -> x < y
        [] op = "<=" -> x <= y
        [] op = "!=" -> x # y

(* The test at line 424, were it to forget the field of the clause. *)
AnyEarlierInequality(inequality_field, field) == inequality_field # NoField

(* An inequality was performed on a different field before (line 424). *)
OtherInequalityField(inequality_field, field) ==
  inequality_field # NoField /\ inequality_field # field

(* The loop of _format_filters from clause i on: what it raises, or the   *)
(* inequality field and the formatted filters it returns.                 *)
RECURSIVE FormatFiltersFrom(_, _, _, _)
FormatFiltersFrom(filters, i, inequality_field, formatted_filters) ==
  IF i > Len(filters)
  THEN [raised |-> FALSE, outcome |-> "formatted",
        inequality_field |-> inequality_field,
        filters |-> formatted_filters]
  ELSE
    LET f == filters[i] IN
    IF f.field \notin DOMAIN FIELDS \/ f.operator \notin DOMAIN OPERATORS
    THEN [raised |-> TRUE, outcome |-> "BadRequest: invalid field or operator",
          inequality_field |-> NoField, filters |-> <<>>]
    ELSE
      LET filtr == [field |-> FIELDS[f.field],
                    operator |-> OPERATORS[f.operator], value |-> f.value]
      IN
      IF filtr.operator # "="
      THEN IF OtherInequalityField(inequality_field, filtr.field)
           THEN [raised |-> TRUE,
                 outcome |-> "BadRequest: inequality on only one field",
                 inequality_field |-> NoField, filters |-> <<>>]
           ELSE FormatFiltersFrom(filters, i + 1, filtr.field,
                                  Append(formatted_filters, filtr))
      ELSE FormatFiltersFrom(filters, i + 1, inequality_field,
                             Append(formatted_filters, filtr))

FormatFilters(filters) == FormatFiltersFrom(filters, 1, NoField, <<>>)

(* QueryOrder, were lines 389-390 missing. *)
OrderByName(inequality_filter) == <<"name">>

(* q.order(...): the sort orders of the query. *)
QueryOrder(inequality_filter) ==
  IF inequality_filter = NoField THEN <<"name">>
  ELSE <<inequality_filter, "name">>

(* Some formatted filter on a numeric field carries a value int() rejects *)
(* (line 395).                                                            *)
BadValue(filters) ==
  \E i \in 1..Len(filters) :
    filters[i].field \in NumericFields /\ ~IsNumeral(filters[i].value)

(* ndb.query.FilterNode(field, operator, value) on one entity: a repeated *)
(* property (topics) satisfies it when one of its values does.            *)
FilterNode(conf, filtr) ==
  LET numeric == filtr.field \in NumericFields
      value   == IF numeric THEN ToInt(filtr.value) ELSE filtr.value
  IN  IF filtr.field = "topics"
      THEN \E k \in 1..Len(conf.topics) :
             Compare(conf.topics[k], filtr.operator, value, FALSE)
      ELSE Compare(conf[filtr.field], filtr.operator, value, numeric)

(* The value an entity is sorted by on a property (the least value of a   *)
(* repeated one).                                                         *)
SortValue(conf, field) ==
  IF field \in NumericFields THEN conf[field]
  ELSE IF field = "topics"
  THEN CHOOSE r \in {Rank(conf.topics[k]) : k \in 1..Len(conf.topics)} :
         \A k \in 1..Len(conf.topics) : r <= Rank(conf.topics[k])
  ELSE Rank(conf[field])

(* Entity c comes before entity d under the sort orders from the i-th on; *)
(* entities equal on every order come in key order.                       *)
RECURSIVE ComesBefore(_, _, _, _)
ComesBefore(c, d, order, i) ==
  IF i > Len(order) THEN c < d
  ELSE LET x == SortValue(confs[c], order[i])
           y == SortValue(confs[d], order[i])
       IN  x < y \/ (x = y /\ ComesBefore(c, d, order, i + 1))

(* Fetch, were the sort orders not applied: the entities in key order. *)
RECURSIVE FetchByKey(_, _)
FetchByKey(S, order) ==
  IF S = {} THEN <<>>
  ELSE LET first == CHOOSE c \in S : \A d \in S : c <= d
       IN  <<first>> \o FetchByKey(S \ {first}, order)

(* The entities of S in the order the query returns them. *)
RECURSIVE Fetch(_, _)
Fetch(S, order) ==
  IF S = {} THEN <<>>
  ELSE LET first == CHOOSE c \in S :
                      \A d \in S \ {c} : ComesBefore(c, d, order, 1)
       IN  <<first>> \o Fetch(S \ {first}, order)

(* _get_query and the iteration over it in query_conferences: what the    *)
(* call raises, or the sort orders and the conferences it returns.        *)
GetQuery(filters) ==
  LET fmt == FormatFilters(filters) IN
  IF fmt.raised THEN [raised |-> TRUE, outcome |-> fmt.outcome, result |-> <<>>]
  ELSE IF BadValue(fmt.filters)
  THEN [raised |-> TRUE, outcome |-> "ValueError", result |-> <<>>]
  ELSE
    LET order == QueryOrder(fmt.inequality_field)
        found == {c \in DOMAIN confs :
                    \A i \in 1..Len(fmt.filters) :
                      FilterNode(confs[c], fmt.filters[i])}
    IN  [raised |-> FALSE, outcome |-> "ConferenceForms",
         result |-> [inequality_field |-> fmt.inequality_field,
                     order |-> order, items |-> Fetch(found, order)]]

(* queryConferences with at most n clauses: needs no user, reads the      *)
(* store, writes nothing.                                                 *)
QueryConferences(t, n) ==
  /\ txn[t].pc = "idle"
  /\ \E k \in 0..n : \E filters \in FilterSeqs(k) :
       LET r == GetQuery(filters) IN
       txn' = [txn EXCEPT
                ![t] = [IdleSlot EXCEPT !.pc = "done", !.op = "query",
                                        !.request = filters,
                                        !.outcome = r.outcome,
                                        !.result = r.result]]
  /\ Forget
  /\ UNCHANGED <<profiles, confs, tasks, memcache>>

(* --------------------------- specification ---------------------------- *)
(* The API served one call at a time: every call of slot Serial runs to   *)
(* its end before the next one arrives.                                   *)
Serial == CHOOSE t \in Slots : \A x \in Slots : t <= x

Init ==
  /\ profiles = <<>>
  /\ confs = <<>>
  /\ txn = [t \in Slots |-> IdleSlot]
  /\ tasks = {}
  /\ memcache = <<>>
  /\ before = NoCall

Next ==
  \/ \E u \in Users \cup {NoUser}, c \in ConfIds, reg \in BOOLEAN :
       ConferenceRegistration(Serial, u, c, reg)
  \/ Commit(Serial)
  \/ Respond(Serial)
  \/ \E u \in Users \cup {NoUser}, r \in ConferenceForms :
       CreateConferenceObject(Serial, u, r)
  \/ Enqueue(Serial)
  \/ EnqueueFails(Serial)
  \/ \E u \in Users \cup {NoUser}, c \in ConfIds, r \in PatchForms :
       UpdateConferenceObject(Serial, u, c, r)
  \/ \E u \in Users \cup {NoUser} : GetProfile(Serial, u)
  \/ \E u \in Users \cup {NoUser}, r \in ProfileMiniForms :
       SaveProfile(Serial, u, r)
  \/ ProfilePut(Serial)
  \/ CacheAnnouncement

Spec == Init /\ [][Next]_vars

(* Calls in flight together, on a store that two createConference calls   *)
(* have filled: conference 1 of user 1 with one seat, conference 2 of     *)
(* user 2 with two.                                                       *)
InitConcurrent ==
  /\ profiles = <<>>
  /\ confs = (1 :> NewConference(1, [name |-> "a", maxAttendees |-> 1]))
             @@ (2 :> NewConference(2, [name |-> "a", maxAttendees |-> 2]))
  /\ txn = [t \in Slots |-> IdleSlot]
  /\ tasks = {1, 2}
  /\ memcache = <<>>
  /\ before = NoCall

NextConcurrent ==
  \/ \E t \in Slots, u \in Users, c \in ConfIds, reg \in BOOLEAN :
       ConferenceRegistration(t, u, c, reg)
  \/ \E t \in Slots : Commit(t)
  \/ \E t \in Slots : Retry(t)
  \/ \E t \in Slots : GiveUp(t)
  \/ \E t \in Slots : Respond(t)
  \/ \E t \in Slots, u \in Users : GetProfile(t, u)

SpecConcurrent == InitConcurrent /\ [][NextConcurrent]_vars

(* The race on the last seats: user 1 has created conference 1 with k     *)
(* seats, 0 <= k < MaxRacers, no racer is registered, and every racer     *)
(* (racer t is user t) calls registerForConference on it once.            *)
RaceForm(k) ==
  IF k > 0 THEN [name |-> "a", maxAttendees |-> k] ELSE [name |-> "a"]

InitRace ==
  /\ profiles = <<>>
  /\ \E k \in 0..(MaxRacers - 1) : confs = (1 :> NewConference(1, RaceForm(k)))
  /\ txn = [t \in Racers |-> IdleSlot]
  /\ tasks = {1}
  /\ memcache = <<>>
  /\ before = NoCall

NextRace ==
  \/ \E t \in Racers : ConferenceRegistration(t, t, 1, TRUE)
  \/ \E t \in Racers : Commit(t)
  \/ \E t \in Racers : Retry(t)
  \/ \E t \in Racers : GiveUp(t)

SpecRace == InitRace /\ [][NextRace]_vars

(* The filter compiler on every sequence of at most MaxFilters clauses,   *)
(* over a store two createConference calls have filled.                   *)
InitFilters ==
  /\ profiles = <<>>
  /\ confs = [c \in ConfIds |->
                NewConference(1, [name |-> "a", city |-> "London",
                                  maxAttendees |-> 10 + c])]
  /\ txn = [t \in Slots |-> IdleSlot]
  /\ tasks = ConfIds
  /\ memcache = <<>>
  /\ before = NoCall

NextFilters ==
  \/ QueryConferences(Serial, MaxFilters)
  \/ Respond(Serial)

SpecFilters == InitFilters /\ [][NextFilters]_vars

(* queryConferences on every store of conferences made from              *)
(* QueryStoreForms.                                                       *)
InitQuery ==
  /\ profiles = <<>>
  /\ \E forms \in [ConfIds -> QueryStoreForms] :
       confs = [c \in ConfIds |-> NewConference(1, forms[c])]
  /\ txn = [t \in Slots |-> IdleSlot]
  /\ tasks = ConfIds
  /\ memcache = <<>>
  /\ before = NoCall

NextQuery ==
  \/ QueryConferences(Serial, MaxQueryFilters)
  \/ Respond(Serial)

SpecQuery == InitQuery /\ [][NextQuery]_vars

(* ------------------------------ claims -------------------------------- *)
Registered(c) ==
  {u \in DOMAIN profiles : In(c, profiles[u].conferenceKeysToAttend)}

(* The keys of user u in the profiles profs, none without a Profile. *)
KeysOf(profs, u) ==
  IF u \in DOMAIN profs THEN profs[u].conferenceKeysToAttend ELSE <<>>

AtRest == \A t \in DOMAIN txn : txn[t].pc \in {"idle", "done"}

(* The body of a registration call runs in slot t in this step: the call  *)
(* arrives, or its failed commit makes it run again.                      *)
BodyRuns(t, op) ==
  /\ txn'[t].op = op
  /\ \/ txn[t].pc = "idle" /\ txn'[t].pc # "idle"
     \/ /\ txn[t].pc = "commit" /\ txn[t].stale /\ txn[t].attempts < Retries
        /\ txn'[t] # txn[t]

(* The transaction of slot t commits in this step. *)
Commits(t) ==
  txn[t].pc = "commit" /\ ~txn[t].stale /\ txn'[t].pc = "done"

Ends(t, outcome) == txn'[t].pc = "done" /\ txn'[t].outcome = outcome

StoreUnchanged == profiles' = profiles /\ confs' = confs

(* C1: for every conference, seatsAvailable = maxAttendees minus the      *)
(* number of profiles whose conferenceKeysToAttend contains its key.      *)
C1_SeatInvariant ==
  \A c \in DOMAIN confs :
    confs[c].seatsAvailable =
      confs[c].maxAttendees - Cardinality(Registered(c))

(* C4: with no call in flight, every conference has                       *)
(* 0 <= seatsAvailable <= maxAttendees.                                   *)
C4_SeatBounds ==
  AtRest =>
    \A c \in DOMAIN confs :
      /\ 0 <= confs[c].seatsAvailable
      /\ confs[c].seatsAvailable <= confs[c].maxAttendees

(* The outcome of the race, once every racer's call has ended. *)
RaceOver == \A t \in Racers : txn[t].pc = "done"
Ended(outcome) == {t \in Racers : txn[t].outcome = outcome}
RaceSeats == confs[1].maxAttendees

(* C2 as claimed: when the race is over exactly k calls have returned     *)
(* true, the other N - k were rejected with NoSeatsAvailable and the      *)
(* conference has no seat left (k is the maxAttendees it was made with).  *)
C2_RaceAsClaimed ==
  RaceOver =>
    /\ Cardinality(Ended("True")) = RaceSeats
    /\ Ended("NoSeatsAvailable") = Racers \ Ended("True")
    /\ confs[1].seatsAvailable = 0

(* C2 amended: at most k calls return true and seatsAvailable ends at k   *)
(* minus their number; every other call is rejected with NoSeatsAvailable *)
(* or, its commit having failed Retries + 1 times, with                   *)
(* TransactionFailedError; when k <= Retries, or no call ran out of       *)
(* retries, exactly k return true and no seat is left.                    *)
C2_Race ==
  RaceOver =>
    /\ Cardinality(Ended("True")) <= RaceSeats
    /\ confs[1].seatsAvailable = RaceSeats - Cardinality(Ended("True"))
    /\ Racers \ Ended("True")
         = Ended("NoSeatsAvailable") \cup Ended("TransactionFailedError")
    /\ Registered(1) = Ended("True")
    /\ (RaceSeats <= Retries => Ended("TransactionFailedError") = {})
    /\ (Ended("TransactionFailedError") = {} =>
          /\ Cardinality(Ended("True")) = RaceSeats
          /\ confs[1].seatsAvailable = 0)

C2_Witness ==
  /\ RaceOver
  /\ RaceSeats >= 2
  /\ Cardinality(Ended("True")) = RaceSeats
  /\ Cardinality(Ended("NoSeatsAvailable")) >= 2
  /\ confs[1].seatsAvailable = 0

NoDuplicateKeys ==
  \A u \in DOMAIN profiles :
    \A i, j \in 1..Len(profiles[u].conferenceKeysToAttend) :
      profiles[u].conferenceKeysToAttend[i]
        = profiles[u].conferenceKeysToAttend[j] => i = j

(* C3: no profile's conferenceKeysToAttend ever holds the same conference *)
(* key twice, whatever calls run together: a registration commits only    *)
(* while the key is not in the caller's stored list, to which the commit  *)
(* appends it, and a registration whose commit failed because the key got *)
(* there meanwhile ends, when its body runs again, with                   *)
(* AlreadyRegistered.                                                     *)
C3_NoDuplicateKeys ==
  /\ []NoDuplicateKeys
  /\ [][\A t \in DOMAIN txn :
         /\ (Commits(t) /\ txn[t].op = "register")
            => /\ ~In(txn[t].wsck, KeysOf(profiles, txn[t].user))
               /\ KeysOf(profiles', txn[t].user)
                    = Append(KeysOf(profiles, txn[t].user), txn[t].wsck)
         /\ (/\ txn[t].pc = "commit" /\ txn[t].op = "register"
             /\ BodyRuns(t, "register")
             /\ In(txn[t].wsck, KeysOf(profiles, txn[t].user)))
            => Ends(t, "AlreadyRegistered")]_vars

(* Two registrations of one user for one conference in flight together:   *)
(* one has returned true, the commit of the other is bound to fail.       *)
C3_Witness ==
  \E t1, t2 \in Slots :
    /\ txn[t1].pc = "done" /\ txn[t1].op = "register"
    /\ txn[t1].outcome = "True"
    /\ txn[t2].pc = "commit" /\ txn[t2].op = "register" /\ txn[t2].stale
    /\ txn[t2].user = txn[t1].user /\ txn[t2].wsck = txn[t1].wsck
    /\ In(txn[t1].wsck, profiles[txn[t1].user].conferenceKeysToAttend)

(* C5: a registration whose body finds the key already in the caller's    *)
(* list ends with AlreadyRegistered, whatever seatsAvailable is, and the  *)
(* step changes neither profiles nor conferences.                         *)
C5_AlreadyRegistered ==
  [][\A t \in DOMAIN txn :
       (/\ BodyRuns(t, "register")
        /\ txn'[t].wsck \in DOMAIN confs
        /\ In(txn'[t].wsck, KeysOf(profiles, txn'[t].user)))
       => Ends(t, "AlreadyRegistered") /\ StoreUnchanged]_vars

C5_Witness ==
  \E t \in DOMAIN txn :
    /\ txn[t].pc = "done" /\ txn[t].op = "register"
    /\ txn[t].outcome = "AlreadyRegistered"
    /\ In(txn[t].wsck, profiles[txn[t].user].conferenceKeysToAttend)
    /\ confs[txn[t].wsck].seatsAvailable <= 0

(* C6: a registration by a user not registered for a conference with      *)
(* seatsAvailable <= 0 ends with NoSeatsAvailable and the step changes no *)
(* conference and no profile, and creates none.                           *)
C6_NoSeatsAvailable ==
  [][\A t \in DOMAIN txn :
       (/\ BodyRuns(t, "register")
        /\ txn'[t].user # NoUser
        /\ txn'[t].wsck \in DOMAIN confs
        /\ ~In(txn'[t].wsck, KeysOf(profiles, txn'[t].user))
        /\ confs[txn'[t].wsck].seatsAvailable <= 0)
       => Ends(t, "NoSeatsAvailable") /\ StoreUnchanged]_vars

(* The caller has no Profile, another user holds the only seat. *)
C6_Witness ==
  \E t \in DOMAIN txn :
    /\ txn[t].pc = "done" /\ txn[t].op = "register"
    /\ txn[t].outcome = "NoSeatsAvailable"
    /\ txn[t].user \notin DOMAIN profiles
    /\ confs[txn[t].wsck].maxAttendees > 0
    /\ confs[txn[t].wsck].seatsAvailable = 0

(* An unregistration whose body finds the key missing from the caller's   *)
(* list, in its two steps: the body runs, the transaction commits.        *)
UnregisterAbsentRuns(t) ==
  /\ BodyRuns(t, "unregister")
  /\ txn'[t].user # NoUser
  /\ txn'[t].wsck \in DOMAIN confs
  /\ ~In(txn'[t].wsck, KeysOf(profiles, txn'[t].user))

UnregisterAbsentCommits(t) ==
  /\ Commits(t)
  /\ txn[t].op = "unregister"
  /\ ~In(txn[t].wsck, KeysOf(profiles, txn[t].user))

(* C7 as claimed: the call returns false and the store after it is the    *)
(* store before it, the set of profile records included.                  *)
C7_NoMutationAsClaimed ==
  [][\A t \in DOMAIN txn :
       /\ UnregisterAbsentRuns(t)
          => /\ txn'[t].pc = "commit" /\ txn'[t].outcome = "False"
             /\ StoreUnchanged
       /\ UnregisterAbsentCommits(t)
          => Ends(t, "False") /\ StoreUnchanged]_vars

(* C7 amended: the call returns false and changes no record that exists:  *)
(* every conference and every stored profile is as before; a caller who   *)
(* had no Profile has the new default one, with no conference key, after  *)
(* the call.                                                              *)
C7_NoMutation ==
  [][\A t \in DOMAIN txn :
       /\ UnregisterAbsentRuns(t)
          => /\ txn'[t].pc = "commit" /\ txn'[t].outcome = "False"
             /\ StoreUnchanged
       /\ UnregisterAbsentCommits(t)
          => /\ Ends(t, "False")
             /\ confs' = confs
             /\ DOMAIN profiles' = DOMAIN profiles \cup {txn[t].user}
             /\ \A v \in DOMAIN profiles : profiles'[v] = profiles[v]
             /\ txn[t].user \notin DOMAIN profiles
                  => profiles'[txn[t].user] = NewProfile(txn[t].user)]_vars

(* The call returned false, and the caller's Profile is the only one. *)
C7_Witness ==
  \E t \in DOMAIN txn :
    /\ txn[t].pc = "done" /\ txn[t].op = "unregister"
    /\ txn[t].outcome = "False"
    /\ DOMAIN profiles = {txn[t].user}
    /\ profiles[txn[t].user] = NewProfile(txn[t].user)
    /\ confs[txn[t].wsck].seatsAvailable = confs[txn[t].wsck].maxAttendees

(* C8: a registration by a user not registered, with a seat left, returns *)
(* true; the user's unregistration that follows it at once returns true   *)
(* and leaves seatsAvailable and the user's list of keys, order included, *)
(* as they were before the registration.                                  *)
C8_RoundTrip ==
  /\ \A t \in DOMAIN txn :
       (/\ txn[t].op = "register" /\ txn[t].pc = "commit"
        /\ ~txn[t].stale)
       => /\ txn[t].outcome = "True"
          /\ ~In(txn[t].wsck,
                 GetProfileFromUser(txn[t].user).conferenceKeysToAttend)
          /\ confs[txn[t].wsck].seatsAvailable > 0
  /\ \A t \in DOMAIN txn :
       (/\ txn[t].pc # "idle"
        /\ Follows(txn[t].op, txn[t].user, txn[t].wsck))
       => txn[t].pc = "commit" /\ txn[t].outcome = "True"
  /\ (before # NoCall /\ before.phase = "unregistered")
       => /\ confs[before.wsck].seatsAvailable = before.seatsAvailable
          /\ profiles[before.user].conferenceKeysToAttend
               = before.conferenceKeysToAttend
          /\ \A t \in DOMAIN txn :
               txn[t].pc = "done" => txn[t].outcome = "True"

(* The round trip is over and the user is registered elsewhere. *)
C8_Witness ==
  /\ before # NoCall
  /\ before.phase = "unregistered"
  /\ before.conferenceKeysToAttend # <<>>
  /\ before.wsck < before.conferenceKeysToAttend[1]
  /\ \E t \in DOMAIN txn :
       /\ txn[t].pc = "done" /\ txn[t].op = "unregister"
       /\ txn[t].user = before.user /\ txn[t].wsck = before.wsck

(* C9: the conference a createConference call has just put has            *)
(* seatsAvailable = maxAttendees = m when the request set maxAttendees to *)
(* m > 0, whatever seatsAvailable it carried, and maxAttendees = 0 when   *)
(* the request left maxAttendees unset.                                   *)
C9_SeatsOnCreation ==
  \A t \in DOMAIN txn :
    txn[t].pc = "enqueue" =>
      /\ ("maxAttendees" \in DOMAIN txn[t].request
            /\ txn[t].request.maxAttendees > 0)
         => /\ confs[txn[t].wsck].maxAttendees = txn[t].request.maxAttendees
            /\ confs[txn[t].wsck].seatsAvailable
                 = txn[t].request.maxAttendees
      /\ "maxAttendees" \notin DOMAIN txn[t].request
         => confs[txn[t].wsck].maxAttendees = 0

(* The request carried another seatsAvailable than its maxAttendees. *)
C9_Witness ==
  \E t \in DOMAIN txn :
    /\ txn[t].pc = "enqueue"
    /\ "maxAttendees" \in DOMAIN txn[t].request
    /\ "seatsAvailable" \in DOMAIN txn[t].request
    /\ txn[t].request.seatsAvailable # txn[t].request.maxAttendees
    /\ confs[txn[t].wsck].seatsAvailable = txn[t].request.maxAttendees

(* The step is the commit of slot t, the call op of user u for conference *)
(* c, which returns true.                                                 *)
RegistrationCommits(t, u, c, op) ==
  /\ Commits(t)
  /\ txn[t].op = op /\ txn[t].user = u /\ txn[t].wsck = c
  /\ txn'[t].outcome = "True"

NextRefresh ==
  \/ \E t \in Slots, u \in Users, c \in ConfIds, reg \in BOOLEAN :
       ConferenceRegistration(t, u, c, reg)
  \/ \E t \in Slots : Commit(t)
  \/ \E t \in Slots : Retry(t)
  \/ \E t \in Slots : GiveUp(t)
  \/ \E t \in Slots : Respond(t)
  \/ \E t \in Slots : RefreshQuery(t)
  \/ \E t \in Slots : RefreshWrite(t)

SpecRefresh == InitConcurrent /\ [][NextRefresh]_vars

(* createConference and updateConference, one call at a time, with the   *)
(* requests that carry dates.                                             *)
NextLifecycle ==
  \/ \E u \in Users \cup {NoUser}, r \in DatedForms :
       CreateConferenceObject(Serial, u, r)
  \/ Enqueue(Serial)
  \/ EnqueueFails(Serial)
  \/ \E u \in Users \cup {NoUser}, c \in ConfIds, r \in DatedForms :
       UpdateConferenceObject(Serial, u, c, r)
  \/ Respond(Serial)

SpecLifecycle == Init /\ [][NextLifecycle]_vars

(* ----------------------- claims on the queries ----------------------- *)
(* A queryConferences call has ended in slot t. *)
Queried(t) == txn[t].pc = "done" /\ txn[t].op = "query"

(* The clauses of a request with an operator other than EQ, and the       *)
(* fields they name.                                                      *)
InequalityClauses(filters) ==
  {i \in 1..Len(filters) : filters[i].operator # "EQ"}

InequalityFields(filters) ==
  {filters[i].field : i \in InequalityClauses(filters)}

Whitelisted(filters) ==
  \A i \in 1..Len(filters) :
    filters[i].field \in DOMAIN FIELDS /\ filters[i].operator \in DOMAIN OPERATORS

(* C11: for every sequence of clauses with whitelisted fields and         *)
(* operators, _format_filters raises the "inequality on only one field"   *)
(* error if and only if clauses with an operator other than EQ name two   *)
(* or more distinct fields; otherwise it returns.                         *)
C11_SingleInequalityField ==
  \A t \in DOMAIN txn :
    (Queried(t) /\ Whitelisted(txn[t].request))
    => /\ (txn[t].outcome = "BadRequest: inequality on only one field")
            <=> (Cardinality(InequalityFields(txn[t].request)) >= 2)
       /\ FormatFilters(txn[t].request).raised
            <=> (Cardinality(InequalityFields(txn[t].request)) >= 2)

(* Three clauses: an inequality, an equality on another field, and a     *)
(* second inequality on the first field; the compiler accepted them.      *)
C11_Witness ==
  \E t \in DOMAIN txn :
    /\ Queried(t)
    /\ Len(txn[t].request) = 3
    /\ txn[t].request[1].operator # "EQ"
    /\ txn[t].request[2].operator = "EQ"
    /\ txn[t].request[2].field # txn[t].request[1].field
    /\ txn[t].request[3].operator = "NE"
    /\ txn[t].request[3].field = txn[t].request[1].field
    /\ txn[t].outcome = "ConferenceForms"

(* Conference conf satisfies clause f of a request (its field and         *)
(* operator whitelisted, its value an integer numeral on a numeric        *)
(* field).                                                                *)
Satisfies(conf, f) ==
  FilterNode(conf, [field |-> FIELDS[f.field],
                    operator |-> OPERATORS[f.operator], value |-> f.value])

(* The sequence items of conference keys is sorted by the properties of   *)
(* order, the first one first.                                            *)
SortedBy(items, order) ==
  \A i, j \in 1..Len(items) :
    i < j =>
      \E n \in 0..Len(order) :
        /\ \A k \in 1..n :
             SortValue(confs[items[i]], order[k])
               = SortValue(confs[items[j]], order[k])
        /\ n < Len(order) =>
             SortValue(confs[items[i]], order[n + 1])
               < SortValue(confs[items[j]], order[n + 1])

NoRepeat(items) ==
  \A i, j \in 1..Len(items) : items[i] = items[j] => i = j

Items(t) == {txn[t].result.items[i] : i \in 1..Len(txn[t].result.items)}

(* C12: an accepted query is sorted by the field of its inequality        *)
(* clauses first and by name second when it has such clauses, by name     *)
(* alone when it has none, and returns, each once and in that order,      *)
(* exactly the conferences that satisfy every clause.                     *)
C12_SortOrder ==
  \A t \in DOMAIN txn :
    (Queried(t) /\ txn[t].outcome = "ConferenceForms")
    => /\ \A f \in InequalityFields(txn[t].request) :
            txn[t].result.order = <<FIELDS[f], "name">>
       /\ InequalityFields(txn[t].request) = {}
            => txn[t].result.order = <<"name">>
       /\ Items(t) = {c \in DOMAIN confs :
                        \A i \in 1..Len(txn[t].request) :
                          Satisfies(confs[c], txn[t].request[i])}
       /\ NoRepeat(txn[t].result.items)
       /\ SortedBy(txn[t].result.items, txn[t].result.order)

(* An equality on the city and an inequality on maxAttendees return two   *)
(* conferences, the one with the greater name first.                      *)
C12_Witness ==
  \E t \in DOMAIN txn :
    /\ Queried(t) /\ txn[t].outcome = "ConferenceForms"
    /\ Len(txn[t].request) = 2
    /\ txn[t].request[1].operator = "EQ"
    /\ txn[t].request[2].operator = "NE"
    /\ txn[t].result.order = <<"maxAttendees", "name">>
    /\ Len(txn[t].result.items) = 2
    /\ Rank(confs[txn[t].result.items[1]].name)
         > Rank(confs[txn[t].result.items[2]].name)

(* The scenario of C13: the clauses (CITY, EQ, London) and                *)
(* (MAX_ATTENDEES, GT, 10), in this order.                                *)
LondonOverTen ==
  <<[field |-> "CITY", operator |-> "EQ", value |-> "London"],
    [field |-> "MAX_ATTENDEES", operator |-> "GT", value |-> "10"]>>

ScenarioQueried(t) == Queried(t) /\ txn[t].request = LondonOverTen

OnlyLondonOverTen(t) ==
  /\ txn[t].outcome = "ConferenceForms"
  /\ Items(t) = {c \in DOMAIN confs :
                   confs[c].city = "London" /\ confs[c].maxAttendees > 10}
  /\ NoRepeat(txn[t].result.items)

(* C13 as claimed: the scenario returns only the conferences with city    *)
(* London and maxAttendees > 10, sorted by name.                          *)
C13_ScenarioAsClaimed ==
  \A t \in DOMAIN txn :
    ScenarioQueried(t)
    => /\ OnlyLondonOverTen(t)
       /\ \A i, j \in 1..Len(txn[t].result.items) :
            i < j => Rank(confs[txn[t].result.items[i]].name)
                       <= Rank(confs[txn[t].result.items[j]].name)

(* C13 amended: the scenario returns only the conferences with city       *)
(* London and maxAttendees > 10, sorted by maxAttendees and, among those  *)
(* with equal maxAttendees, by name.                                      *)
C13_Scenario ==
  \A t \in DOMAIN txn :
    ScenarioQueried(t)
    => /\ OnlyLondonOverTen(t)
       /\ \A i, j \in 1..Len(txn[t].result.items) :
            i < j =>
              LET c == confs[txn[t].result.items[i]]
                  d == confs[txn[t].result.items[j]]
              IN  \/ c.maxAttendees < d.maxAttendees
                  \/ /\ c.maxAttendees = d.maxAttendees
                     /\ Rank(c.name) <= Rank(d.name)

(* The scenario returned two conferences, "b" with 11 seats before "a"    *)
(* with 12.                                                               *)
C13_Witness ==
  \E t \in DOMAIN txn :
    /\ ScenarioQueried(t)
    /\ Len(txn[t].result.items) = 2
    /\ confs[txn[t].result.items[1]].name = "b"
    /\ confs[txn[t].result.items[1]].maxAttendees = 11
    /\ confs[txn[t].result.items[2]].name = "a"
    /\ confs[txn[t].result.items[2]].maxAttendees = 12

(* Some clause of the request names a numeric field (month or            *)
(* maxAttendees) with a value that is no integer.                         *)
HasBadNumericValue(filters) ==
  \E i \in 1..Len(filters) :
    /\ filters[i].field \in {"MONTH", "MAX_ATTENDEES"}
    /\ ~IsNumeral(filters[i].value)

(* C18: a query with a clause on a numeric field whose value is no        *)
(* integer is rejected as a bad request for its invalid filter value,     *)
(* whatever its other clauses are and wherever the clause stands.         *)
C18_InvalidFilterValue ==
  \A t \in DOMAIN txn :
    (Queried(t) /\ HasBadNumericValue(txn[t].request))
    => txn[t].outcome = "BadRequest: invalid filter value"

UpdateArrives(t) ==
  /\ txn[t].pc = "idle"
  /\ txn'[t].op = "update"
  /\ txn'[t].user # NoUser
  /\ txn'[t].wsck \in DOMAIN confs

(* C14: updateConference on a stored conference by an authenticated       *)
(* caller who is not its organizerUserId ends with the Forbidden          *)
(* (NotOwner) error and leaves the stored conferences unchanged; the call *)
(* of the caller who is its organizerUserId does not end with that error. *)
C14_UpdateAuthorization ==
  [][\A t \in DOMAIN txn :
       UpdateArrives(t)
       => IF txn'[t].user # confs[txn'[t].wsck].organizerUserId
          THEN Ends(t, "Forbidden") /\ confs' = confs
          ELSE ~Ends(t, "Forbidden")]_vars

(* The fields a request sets and updateConference copies onto the entity  *)
(* as they are (the dates are parsed).                                    *)
PlainFields(request) == DOMAIN request \ {"startDate", "endDate"}

(* C16: the updateConference call of the organizer for a stored           *)
(* conference, its dates well formed, succeeds; the record it puts has    *)
(* every field the request sets at the request's value, month at the      *)
(* month of the request's startDate when it sets one, and every other     *)
(* field at its stored value.                                             *)
C16_SparsePatch ==
  [][\A t \in DOMAIN txn :
       (/\ UpdateArrives(t)
        /\ txn'[t].user = confs[txn'[t].wsck].organizerUserId)
       => \/ Ends(t, "ValueError")
          \/ /\ txn'[t].pc = "commit"
             /\ LET request == txn'[t].request
                    old == confs[txn'[t].wsck]
                    new == txn'[t].conf
                IN  /\ \A f \in PlainFields(request) \ {"month"} :
                         new[f] = request[f]
                    /\ "startDate" \in DOMAIN request
                         => /\ new.startDate = Strptime(request.startDate)
                            /\ new.month = request.startDate[2]
                    /\ \A f \in DOMAIN old \ (DOMAIN request \cup {"month"}) :
                         f \in DOMAIN new /\ new[f] = old[f]
                    /\ DOMAIN request \cap {"month", "startDate"} = {}
                         => new.month = old.month]_vars

(* month is the month of startDate, 0 without a startDate. *)
DerivedMonth(conf) ==
  conf.month = IF "startDate" \in DOMAIN conf THEN conf.startDate.month ELSE 0

RefreshCompletes(t) == txn[t].pc = "refresh" /\ txn'[t].pc = "done"

Announced(cache) == MEMCACHE_ANNOUNCEMENTS_KEY \in DOMAIN cache

C20_CreateOrdering ==
  /\ [](/\ tasks \subseteq DOMAIN confs
        /\ \A c \in DOMAIN confs : "name" \in DOMAIN confs[c]
        /\ \A t \in DOMAIN txn :
             txn[t].pc = "enqueue"
             => /\ txn[t].wsck \in DOMAIN confs
                /\ txn[t].wsck \notin tasks
                /\ "name" \in DOMAIN txn[t].request)
  /\ [][/\ tasks' # tasks
            => \E t \in DOMAIN txn :
                 /\ txn[t].pc = "enqueue"
                 /\ tasks' = tasks \cup {txn[t].wsck}
                 /\ confs' = confs
        /\ \A t \in DOMAIN txn :
             /\ (txn[t].pc = "enqueue" /\ Ends(t, "TaskQueueError"))
                => /\ confs' = confs
                   /\ txn[t].wsck \in DOMAIN confs'
                   /\ tasks' = tasks
             /\ (txn[t].pc = "idle" /\ txn'[t].op = "create"
                 /\ Ends(t, "BadRequest"))
                => confs' = confs /\ tasks' = tasks]_vars

(* A createConference call has failed at taskqueue.add: its conference is *)
(* stored and has no task; an earlier conference has its task.            *)
C20_Witness ==
  \E t \in DOMAIN txn :
    /\ txn[t].pc = "done" /\ txn[t].op = "create"
    /\ txn[t].outcome = "TaskQueueError"
    /\ txn[t].wsck \in DOMAIN confs
    /\ txn[t].wsck \notin tasks
    /\ tasks # {}

(* ------------------- claims on the frame of a call -------------------- *)
(* The step is a step of the registration call in slot t: its body runs   *)
(* (the call arrives or is tried again), or the call in flight commits,   *)
(* gives up or is answered.                                               *)
RegistrationSteps(t) ==
  \/ BodyRuns(t, "register")
  \/ BodyRuns(t, "unregister")
  \/ /\ txn[t].op \in {"register", "unregister"}
     /\ txn'[t].pc # txn[t].pc

(* The conference d is the conference c but for its seatsAvailable. *)
SameButSeats(c, d) ==
  /\ DOMAIN d = DOMAIN c
  /\ \A f \in DOMAIN c \ {"seatsAvailable"} : d[f] = c[f]

(* C21: a step of a registerForConference or unregisterFromConference     *)
(* call of user u on conference c, whether the call succeeds or fails,    *)
(* leaves every profile but u's and every conference but c as they are,   *)
(* stores and deletes no conference, and changes in c at most             *)
(* seatsAvailable.                                                        *)
C21_RegistrationFrame ==
  [][\A t \in DOMAIN txn :
       RegistrationSteps(t)
       => LET u == IF txn[t].pc = "idle" THEN txn'[t].user ELSE txn[t].user
              c == IF txn[t].pc = "idle" THEN txn'[t].wsck ELSE txn[t].wsck
          IN /\ DOMAIN profiles' \ {u} = DOMAIN profiles \ {u}
             /\ \A v \in DOMAIN profiles \ {u} : profiles'[v] = profiles[v]
             /\ DOMAIN confs' = DOMAIN confs
             /\ \A d \in DOMAIN confs \ {c} : confs'[d] = confs[d]
             /\ c \in DOMAIN confs => SameButSeats(confs[c], confs'[c])]_vars

(* A registration has committed (user u holds a seat of conference c it   *)
(* has just taken) next to another user's registration for another        *)
(* conference, and a registration call has failed.                        *)
C21_Witness ==
  \E t \in DOMAIN txn, v \in DOMAIN profiles, d \in DOMAIN confs :
    /\ txn[t].pc = "done" /\ txn[t].op = "register"
    /\ txn[t].outcome = "True"
    /\ v # txn[t].user /\ d # txn[t].wsck
    /\ In(d, profiles[v].conferenceKeysToAttend)
    /\ In(txn[t].wsck, profiles[txn[t].user].conferenceKeysToAttend)
    /\ confs[txn[t].wsck].seatsAvailable
         = confs[txn[t].wsck].maxAttendees - 1
    /\ \E x \in DOMAIN txn :
         /\ txn[x].pc = "done"
         /\ txn[x].outcome \in {"AlreadyRegistered", "NoSeatsAvailable"}

====
